---- MODULE Spec2Model ----
(***************************************************************************)
(* State-machine model of src/main.rs (ScreenCapApp): the main capture     *)
(* session, the PiP capture session, the recording pipelines and the       *)
(* control operations of the UI thread, interleaved with the capture       *)
(* callbacks that run on the pipelines' streaming threads.                 *)
(*                                                                         *)
(* Option<T> is modelled as a sequence: <<>> is None and <<x>> is Some(x). *)
(* A gst::Pipeline is a record with a "state" field.  A pipeline whose     *)
(* last handle is dropped while it is Playing is not disposed by GStreamer *)
(* and keeps running: such pipelines are collected in the bag "leaked".    *)
(* set_state(Null) always brings the pipeline to Null and returns only     *)
(* after the streaming thread has left the callback; only on_exit, which   *)
(* looks at the result, is modelled with both results.                     *)
(***************************************************************************)
EXTENDS Integers, Sequences, FiniteSets, Bags, TLC

\* ---------------------------------------------------------------- bounds
MaxDisplays == 1
MaxClock == 2
MaxLeaked == 2
NumMics == 2
MaxPipWidth == 352
MaxFrames == 2
MaxDemands == 2

\* ------------------------------------------------------ program constants
CameraWidth == 1280
CameraHeight == 720
FallbackWidth == 1280
FallbackHeight == 720
BytesPerPixel == 4
PipInitWidth == 320
PipInitHeight == 180
PipMinWidth == 320
PipMinHeight == 180
PipAlign == 16
PipDisplayMinWidth == 160
TicksPerSecond == 2

\* ----------------------------------------------------------------- Option
None == <<>>
Some(x) == <<x>>
IsSome(o) == o # <<>>
Unwrap(o) == o[1]

\* -------------------------------------------------------------- variables
VARIABLES
  pc,                  \* position of the UI thread
  device_idx,          \* argument of the switch_source call in progress
  setup,               \* Option<GstreamerSetup> built by setup_gstreamer, not yet installed
  ret,                 \* what the last finished operation returned to its caller
  texture, frame_data, dimensions, rx, sample,
  pipeline, current_device_idx, video_devices,
  is_recording, is_mic_enabled, current_mic_idx,
  recording_pipeline, recording_files,
  show_pip, pip_texture, pip_frame_data, pip_dimensions, pip_sample,
  pip_pipeline,
  pip_size,            \* x component of pip_size, truncated to an integer
  leaked,              \* bag of pipelines dropped while Playing
  opens,               \* output file -> number of times a filesink opened it (saturating at 2)
  now,                 \* wall clock, in ticks
  nDisplays,           \* number of active displays reported by the OS
  exit_log,            \* the set_state(Null) calls of on_exit and their results, in order
  response,            \* gesture on the PiP image reported in the last frame of its window
  enc,                 \* the need_data closures: the buffer they hold and what they pushed
  lock,                \* owner of each mutex
  th,                  \* position of the streaming threads inside their callbacks
  sr_dims              \* the dimensions start_recording has read under the lock for its caps

captureVars == <<texture, frame_data, dimensions, rx, sample, pipeline,
                 current_device_idx, video_devices, setup, device_idx>>
recordVars == <<is_recording, recording_pipeline, recording_files, leaked, opens>>
micVars == <<is_mic_enabled, current_mic_idx>>
pipVars == <<show_pip, pip_texture, pip_frame_data, pip_dimensions, pip_sample,
             pip_pipeline, pip_size>>
envVars == <<now, nDisplays>>
lockVars == <<lock, th, sr_dims>>
vars == <<pc, ret, captureVars, recordVars, micVars, pipVars, envVars, exit_log,
          lockVars, response, enc>>

\* ------------------------------------------------------------ device list
\* the descriptor list built by setup_gstreamer: the camera, then one per display
Devices(n) ==
  [i \in 1..(n + 1) |->
     IF i = 1
       THEN [kind |-> "VideoInput", src |-> "camera", index |-> 0]
       ELSE [kind |-> "VideoInput", src |-> "screen", index |-> i - 2]]

\* pixel size of display i (0-based), what the screen source delivers
DisplayWidth(i) == 1920 + 640 * i
DisplayHeight(i) == 1080 + 360 * i

\* caps of the samples a main capture pipeline delivers
SourceCaps(p) ==
  IF p.src = "camera"
    THEN [width |-> CameraWidth, height |-> CameraHeight]
    ELSE [width |-> DisplayWidth(p.index), height |-> DisplayHeight(p.index)]

\* a decoded RGBA buffer of the given caps, produced by source tag t as its
\* n-th sample (0 where samples are not numbered)
Frame(caps, t, n) ==
  [len |-> caps.width * caps.height * BytesPerPixel, src |-> t, n |-> n]

\* ------------------------------------------------------- setup_gstreamer
\* outcomes of setup_gstreamer(idx) with n active displays
SetupOutcomes(idx, n) ==
  IF idx >= Len(Devices(n)) THEN {"invalid_index"}
  ELSE {"ok", "parse_fail", "play_fail"}

\* the session right after pipeline.set_state(Playing) succeeded
setup_gstreamer(idx, n) ==
  [frame_data |-> None,
   image_dims |-> [width |-> 0, height |-> 0],
   pipeline |-> [state |-> "Playing", src |-> Devices(n)[idx + 1].src,
                 index |-> Devices(n)[idx + 1].index, dev |-> idx, seq |-> 0],
   devices |-> Devices(n),
   rx |-> TRUE,
   sample |-> None]

\* new_sample, first part, if it wrote the dimensions on every sample
new_sample_pull_every_sample(s) ==
  LET caps == SourceCaps(s.pipeline) IN
  [s EXCEPT !.sample = Some(caps),
            !.pipeline.seq = @ + 1,
            !.image_dims = caps,
            !.rx = FALSE]

\* new_sample, first part: pull the sample, update the dimensions once
new_sample_pull(s) ==
  LET caps == SourceCaps(s.pipeline) IN
  [s EXCEPT !.sample = Some(caps),
            !.pipeline.seq = @ + 1,
            !.image_dims = IF s.rx THEN caps ELSE @,
            !.rx = FALSE]

\* new_sample, second part, if it filled the buffer only when it is empty
new_sample_store_if_empty(s) ==
  [s EXCEPT !.frame_data =
              IF IsSome(@) THEN @
              ELSE Some(Frame(Unwrap(s.sample), s.pipeline.dev, s.pipeline.seq)),
            !.sample = None]

\* new_sample, second part: replace the frame
new_sample_store(s) ==
  [s EXCEPT !.frame_data = Some(Frame(Unwrap(s.sample), s.pipeline.dev, s.pipeline.seq)),
            !.sample = None]

\* setup_gstreamer returning the dimensions as the callback left them
setup_fallback_skipped(s) == s

\* format metadata the first sample may lack: no caps at all, caps without a
\* structure, a structure without the width field
AbsentMetadata == {"caps_none", "no_structure", "no_width"}

\* new_sample, first part, when the channel still holds the request and the
\* sample's metadata is incomplete: without caps the callback returns
\* FlowError::Error after try_recv has consumed the request; otherwise the
\* missing values are replaced by 1280x720
new_sample_pull_absent(s, meta) ==
  LET caps == SourceCaps(s.pipeline) IN
  CASE meta = "caps_none" -> [s EXCEPT !.rx = FALSE]
    [] meta = "no_structure" ->
         [s EXCEPT !.sample = Some(caps),
                   !.pipeline.seq = @ + 1,
                   !.image_dims = [width |-> FallbackWidth, height |-> FallbackHeight],
                   !.rx = FALSE]
    [] OTHER ->
         [s EXCEPT !.sample = Some(caps),
                   !.pipeline.seq = @ + 1,
                   !.image_dims = [width |-> FallbackWidth, height |-> caps.height],
                   !.rx = FALSE]

\* the dimension fallback after the 100 ms wait
setup_fallback(s) ==
  [s EXCEPT !.image_dims =
     IF @.width = 0 \/ @.height = 0
       THEN [width |-> FallbackWidth, height |-> FallbackHeight]
       ELSE @]

\* a dummy pipeline that has been started
DummyPipeline_started ==
  [state |-> "Playing", src |-> "fakesrc", index |-> 0, dev |-> 0, seq |-> 0]

\* the dummy pipeline of the error path of new
DummyPipeline == [state |-> "Null", src |-> "fakesrc", index |-> 0, dev |-> 0, seq |-> 0]

\* the mutexes: frame data and dimensions of the main and of the PiP slot
Mutexes == {"frame", "dims", "pip_frame", "pip_dims"}

\* the threads that run callbacks: the streaming threads of the main capture,
\* the PiP capture and the main recording pipeline
Threads == {"cb", "pipcb", "enc"}

\* the need_data closures before any recording: shared tells whether the
\* main closure's frame_data is the installed buffer, old is the content of
\* its buffer otherwise
EncInit ==
  [shared |-> TRUE, old |-> None, pushed |-> <<>>, pip_pushed |-> <<>>, demands |-> 0]

\* ------------------------------------------------------------------- Init
\* sessions setup_gstreamer(0) can return: the first callback may have run
\* not at all, half, or fully during the wait
InitSessions(n) ==
  LET s0 == setup_gstreamer(0, n)
      s1 == new_sample_pull(s0)
      s2 == new_sample_store(s1)
  IN {setup_fallback(s0), setup_fallback(s1), setup_fallback(s2)}

InitCommon ==
  /\ pc = "idle"
  /\ device_idx = 0
  /\ setup = None
  /\ ret = "unit"
  /\ texture = None
  /\ is_recording = FALSE
  /\ is_mic_enabled = TRUE
  /\ recording_pipeline = None
  /\ recording_files = None
  /\ show_pip = FALSE
  /\ pip_texture = None
  /\ pip_frame_data = None
  /\ pip_dimensions = [width |-> 0, height |-> 0]
  /\ pip_sample = None
  /\ pip_pipeline = None
  /\ pip_size = 0
  /\ leaked = EmptyBag
  /\ opens = EmptyBag
  /\ now = 0
  /\ nDisplays \in 0..MaxDisplays
  /\ exit_log = <<>>
  /\ response = "none"
  /\ enc = EncInit
  /\ lock = [m \in Mutexes |-> "free"]
  /\ th = [t \in Threads |-> "idle"]
  /\ sr_dims = None

InitOk ==
  /\ InitCommon
  /\ \E s \in InitSessions(nDisplays) :
       /\ frame_data = s.frame_data
       /\ dimensions = s.image_dims
       /\ pipeline = s.pipeline
       /\ video_devices = s.devices
       /\ rx = s.rx
       /\ sample = s.sample
  /\ current_device_idx = Some(0)
  /\ current_mic_idx = Some(0)

InitErr ==
  /\ InitCommon
  /\ frame_data = None
  /\ dimensions = [width |-> FallbackWidth, height |-> FallbackHeight]
  /\ pipeline = DummyPipeline
  /\ video_devices = <<>>
  /\ rx = FALSE
  /\ sample = None
  /\ current_device_idx = Some(0)
  /\ current_mic_idx = None

Init == InitOk \/ InitErr


\* --------------------------------------------------- capture callbacks
\* get_current_frame: a clone of the buffer's content, taken under its lock
get_current_frame == frame_data

\* the current main session as setup_gstreamer returned it
Cur ==
  [frame_data |-> frame_data, image_dims |-> dimensions, pipeline |-> pipeline,
   devices |-> video_devices, rx |-> rx, sample |-> sample]

\* main new_sample callback, up to the release of the dimensions lock
MainNewSamplePull ==
  /\ pc # "exited"
  /\ IF IsSome(setup)
       THEN /\ Unwrap(setup).pipeline.state = "Playing"
            /\ Unwrap(setup).sample = None
            /\ Unwrap(setup).pipeline.seq < MaxFrames
            /\ setup' = Some(new_sample_pull(Unwrap(setup)))
            /\ UNCHANGED <<dimensions, rx, sample, pipeline>>
       ELSE /\ pipeline.state = "Playing"
            /\ sample = None
            /\ pipeline.seq < MaxFrames
            /\ LET s == new_sample_pull(Cur) IN
                 /\ dimensions' = s.image_dims
                 /\ rx' = s.rx
                 /\ sample' = s.sample
                 /\ pipeline' = s.pipeline
            /\ UNCHANGED setup
  /\ UNCHANGED <<pc, ret, texture, frame_data, current_device_idx,
                 video_devices, device_idx, recordVars, micVars, pipVars, envVars, exit_log, lockVars, response, enc>>

\* main new_sample callback on a first sample with incomplete metadata.  A
\* flow error ends the streaming of a real pipeline; here later samples are
\* still delivered, which only adds behaviours.
MainNewSamplePullAbsent ==
  /\ pc # "exited"
  /\ \E meta \in AbsentMetadata :
       IF IsSome(setup)
         THEN /\ Unwrap(setup).pipeline.state = "Playing"
              /\ Unwrap(setup).sample = None
              /\ Unwrap(setup).pipeline.seq < MaxFrames
              /\ Unwrap(setup).rx
              /\ setup' = Some(new_sample_pull_absent(Unwrap(setup), meta))
              /\ UNCHANGED <<dimensions, rx, sample, pipeline>>
         ELSE /\ pipeline.state = "Playing"
              /\ sample = None
              /\ pipeline.seq < MaxFrames
              /\ rx
              /\ LET s == new_sample_pull_absent(Cur, meta) IN
                   /\ dimensions' = s.image_dims
                   /\ rx' = s.rx
                   /\ sample' = s.sample
                   /\ pipeline' = s.pipeline
              /\ UNCHANGED setup
  /\ UNCHANGED <<pc, ret, texture, frame_data, current_device_idx,
                 video_devices, device_idx, recordVars, micVars, pipVars, envVars, exit_log, lockVars, response, enc>>

\* main new_sample callback, the frame replacement
MainNewSampleStore ==
  /\ pc # "exited"
  /\ IF IsSome(setup)
       THEN /\ Unwrap(setup).sample # None
            /\ setup' = Some(new_sample_store(Unwrap(setup)))
            /\ UNCHANGED <<frame_data, sample>>
       ELSE /\ sample # None
            /\ LET s == new_sample_store(Cur) IN
                 /\ frame_data' = s.frame_data
                 /\ sample' = s.sample
            /\ UNCHANGED setup
  /\ UNCHANGED <<pc, ret, texture, dimensions, rx, pipeline, current_device_idx,
                 video_devices, device_idx, recordVars, micVars, pipVars, envVars, exit_log, lockVars, response, enc>>

\* PiP new_sample callback, up to the release of the dimensions lock
PipNewSamplePull ==
  /\ pc # "exited"
  /\ IsSome(pip_pipeline)
  /\ Unwrap(pip_pipeline).state = "Playing"
  /\ pip_sample = None
  /\ pip_sample' = Some(Unwrap(pip_pipeline).caps)
  /\ pip_dimensions' = Unwrap(pip_pipeline).caps
  /\ UNCHANGED <<pc, ret, captureVars, recordVars, micVars, envVars, exit_log, lockVars, response, enc,
                 show_pip, pip_texture, pip_size, pip_frame_data, pip_pipeline>>

\* PiP new_sample callback, the frame replacement
PipNewSampleStore ==
  /\ pc # "exited"
  /\ pip_sample # None
  /\ pip_frame_data' = Some(Frame(Unwrap(pip_sample), "pip", 0))
  /\ pip_sample' = None
  /\ UNCHANGED <<pc, ret, captureVars, recordVars, micVars, envVars, exit_log, lockVars, response, enc,
                 show_pip, pip_texture, pip_size, pip_dimensions, pip_pipeline>>

\* ------------------------------------------------------ dropped pipelines
\* dropping the last handle of pipeline p
Drop(bag, p, kind) ==
  IF p.state = "Playing" THEN bag (+) SetToBag({kind}) ELSE bag

\* a filesink opens (creates or truncates) file f
Open(bag, f) == IF CopiesIn(f, bag) >= 2 THEN bag ELSE bag (+) SetToBag({f})


\* -------------------------------------------------------------- recording
\* chrono::Local::now().format("%Y%m%d_%H%M%S"): the clock truncated to seconds
Timestamp(t) == t \div TicksPerSecond
MainFile(ts) == [ts |-> ts, suffix |-> "main"]
PipFile(ts) == [ts |-> ts, suffix |-> "pip"]
FinalFile(ts) == [ts |-> ts, suffix |-> ""]

\* the points at which start_recording can return an error
StartFailures ==
  {"none", "main_parse", "main_play"} \cup
  (IF show_pip THEN {"pip_parse", "pip_play"} ELSE {})

\* the main recording pipeline start_recording builds (main_pipeline_str),
\* with the caps it read under the dimensions lock (now, unless a step of
\* the call has read them before):
\* the osxaudiosrc branch is part of the string; mic records the toggle at the call
MainRecordingPipeline(ts) ==
  [state |-> "Playing", file |-> MainFile(ts), audio |-> TRUE,
   mic |-> is_mic_enabled,
   caps |-> IF IsSome(sr_dims) THEN Unwrap(sr_dims) ELSE dimensions]

\* start_recording that raises is_recording before its first failure point
start_recording_flag_first(fail) ==
  [recording_pipeline |-> recording_pipeline,
   recording_files |-> recording_files,
   is_recording |-> TRUE,
   leaked |-> leaked, opens |-> opens,
   ret |-> IF fail = "none" THEN "Ok" ELSE "Err"]

\* result of start_recording when it fails at point fail ("none": success):
\* the new values of the fields it writes, the dropped pipelines, the files opened
start_recording(fail) ==
  LET ts == Timestamp(now)
      same == [recording_pipeline |-> recording_pipeline,
               recording_files |-> recording_files,
               is_recording |-> is_recording,
               leaked |-> leaked, opens |-> opens, ret |-> "Err"]
  IN
  CASE fail \in {"main_parse", "pip_parse", "main_play"} -> same
    [] fail = "pip_play" ->
         \* main_pipeline is Playing when the local handle is dropped
         [same EXCEPT !.leaked = Drop(leaked, [state |-> "Playing"], "rec_main"),
                      !.opens = Open(opens, MainFile(ts))]
    [] OTHER ->
         [recording_pipeline |-> Some(MainRecordingPipeline(ts)),
          recording_files |-> Some(<<MainFile(ts), PipFile(ts), FinalFile(ts)>>),
          is_recording |-> TRUE,
          \* the previous recording_pipeline value and the local pip_pipeline are dropped
          leaked |->
            LET l1 == IF IsSome(recording_pipeline)
                        THEN Drop(leaked, Unwrap(recording_pipeline), "rec_main")
                        ELSE leaked
            IN IF show_pip
                 THEN Drop(l1, [state |-> "Playing"], "rec_pip")
                 ELSE l1,
          opens |-> IF show_pip
                      THEN Open(Open(opens, MainFile(ts)), PipFile(ts))
                      ELSE Open(opens, MainFile(ts)),
          ret |-> "Ok"]

\* stop_recording reading the job state in place instead of taking it
stop_recording_borrow(app) ==
  IF IsSome(app.recording_files)
    THEN [recording_files |-> app.recording_files,
          recording_pipeline |-> app.recording_pipeline,
          pip_pipeline |-> app.pip_pipeline,
          is_recording |-> FALSE,
          nulled |-> (IF IsSome(app.recording_pipeline) THEN 1 ELSE 0)
                     + (IF IsSome(app.pip_pipeline) THEN 1 ELSE 0)]
    ELSE [recording_files |-> app.recording_files,
          recording_pipeline |-> app.recording_pipeline,
          pip_pipeline |-> app.pip_pipeline,
          is_recording |-> FALSE,
          nulled |-> 0]

\* result of stop_recording on the fields app = [recording_files,
\* recording_pipeline, pip_pipeline, is_recording]; nulled counts the
\* set_state(Null) calls it made
stop_recording(app) ==
  IF IsSome(app.recording_files)
    THEN [recording_files |-> None,
          recording_pipeline |-> None,
          pip_pipeline |-> None,
          is_recording |-> FALSE,
          nulled |-> (IF IsSome(app.recording_pipeline) THEN 1 ELSE 0)
                     + (IF IsSome(app.pip_pipeline) THEN 1 ELSE 0)]
    ELSE [recording_files |-> app.recording_files,
          recording_pipeline |-> app.recording_pipeline,
          pip_pipeline |-> app.pip_pipeline,
          is_recording |-> FALSE,
          nulled |-> 0]

App ==
  [recording_files |-> recording_files, recording_pipeline |-> recording_pipeline,
   pip_pipeline |-> pip_pipeline, is_recording |-> is_recording]

\* set_state(Null) on the PiP capture pipeline waits for its callback to return
PipCallbackIdle == pip_sample = None

\* start_recording leaks a pipeline only when PiP is shown
StartAllowed == show_pip => BagCardinality(leaked) < MaxLeaked

DoStart(fail) ==
  LET r == start_recording(fail) IN
  /\ recording_pipeline' = r.recording_pipeline
  /\ recording_files' = r.recording_files
  /\ is_recording' = r.is_recording
  /\ leaked' = r.leaked
  /\ opens' = r.opens
  /\ ret' = r.ret
  /\ enc' = IF r.ret = "Ok"
              THEN [enc EXCEPT !.shared = TRUE, !.old = None, !.pushed = <<>>, !.demands = 0]
              ELSE enc
  /\ UNCHANGED pip_pipeline

DoStop ==
  LET r == stop_recording(App) IN
  /\ r.pip_pipeline # pip_pipeline => PipCallbackIdle
  /\ recording_pipeline' = r.recording_pipeline
  /\ recording_files' = r.recording_files
  /\ is_recording' = r.is_recording
  /\ pip_pipeline' = r.pip_pipeline
  /\ enc' = IF r.recording_pipeline = None
              THEN [enc EXCEPT !.shared = TRUE, !.old = None, !.pushed = <<>>, !.demands = 0]
              ELSE enc
  /\ UNCHANGED <<leaked, opens>>

\* need_data if it moved the frame out of the FrameBuffer
need_data_take(buffer) ==
  [pushed |-> IF IsSome(buffer) THEN <<Unwrap(buffer)>> ELSE <<>>,
   buffer |-> None]

\* need_data on FrameBuffer content buffer: the buffers pushed into the
\* appsrc (a copy of the frame, if there is one) and the content afterwards
need_data(buffer) ==
  [pushed |-> IF IsSome(buffer) THEN <<Unwrap(buffer)>> ELSE <<>>,
   buffer |-> buffer]

\* content of the FrameBuffer that the main need_data closure holds
EncBuffer == IF enc.shared THEN frame_data ELSE enc.old

\* the appsrc of the retained main recording pipeline asks for data
NeedDataMain ==
  /\ pc # "exited"
  /\ IsSome(recording_pipeline)
  /\ Unwrap(recording_pipeline).state = "Playing"
  /\ enc.demands < MaxDemands
  /\ LET r == need_data(EncBuffer) IN
       /\ enc' = [enc EXCEPT !.pushed = @ \o r.pushed,
                             !.demands = @ + 1,
                             !.old = IF enc.shared THEN @ ELSE r.buffer]
       /\ frame_data' = IF enc.shared THEN r.buffer ELSE frame_data
  /\ UNCHANGED <<pc, ret, texture, dimensions, rx, sample, pipeline, current_device_idx,
                 video_devices, setup, device_idx, recordVars, micVars, pipVars, envVars,
                 exit_log, lockVars, response>>

\* the appsrc of a PiP recording pipeline asks for data; these pipelines
\* are locals of start_recording and run on after it returned
NeedDataPip ==
  /\ pc # "exited"
  /\ CopiesIn("rec_pip", leaked) > 0
  /\ Len(enc.pip_pushed) < MaxDemands
  /\ LET r == need_data(pip_frame_data) IN
       /\ r.pushed # <<>>
       /\ enc' = [enc EXCEPT !.pip_pushed = @ \o r.pushed]
       /\ pip_frame_data' = r.buffer
  /\ UNCHANGED <<pc, ret, captureVars, recordVars, micVars, envVars, exit_log, lockVars,
                 response, show_pip, pip_texture, pip_size, pip_dimensions, pip_sample,
                 pip_pipeline>>

\* the record button of update
RecordButton ==
  /\ pc = "idle"
  /\ IF is_recording
       THEN DoStop /\ ret' = "unit"
       ELSE StartAllowed /\ \E fail \in StartFailures : DoStart(fail)
  /\ UNCHANGED <<pc, captureVars, micVars, envVars, exit_log, lockVars, response,
                 show_pip, pip_texture, pip_size, pip_frame_data, pip_dimensions, pip_sample>>

\* the Cmd+R shortcut of update
CmdR ==
  /\ pc = "idle"
  /\ IF is_recording
       THEN DoStop /\ ret' = "unit"
       ELSE StartAllowed /\ \E fail \in StartFailures : DoStart(fail)
  /\ UNCHANGED <<pc, captureVars, micVars, envVars, exit_log, lockVars, response,
                 show_pip, pip_texture, pip_size, pip_frame_data, pip_dimensions, pip_sample>>

\* the microphone checkbox of update, up to and including stop_recording
MicCheckbox ==
  /\ pc = "idle"
  /\ is_mic_enabled' = ~is_mic_enabled
  /\ IF is_recording
       THEN StartAllowed /\ DoStop /\ pc' = "restart"
       ELSE UNCHANGED <<pc, recordVars, pip_pipeline, enc>>
  /\ ret' = "unit"
  /\ UNCHANGED <<captureVars, current_mic_idx, envVars, exit_log, lockVars, response,
                 show_pip, pip_texture, pip_size, pip_frame_data, pip_dimensions, pip_sample>>

\* switch_mic, up to and including stop_recording
switch_mic(idx) ==
  /\ pc = "idle"
  /\ Some(idx) # current_mic_idx
  /\ current_mic_idx' = Some(idx)
  /\ IF is_recording
       THEN StartAllowed /\ DoStop /\ pc' = "restart"
       ELSE UNCHANGED <<pc, recordVars, pip_pipeline, enc>>
  /\ ret' = "unit"
  /\ UNCHANGED <<captureVars, is_mic_enabled, envVars, exit_log, lockVars, response,
                 show_pip, pip_texture, pip_size, pip_frame_data, pip_dimensions, pip_sample>>

SwitchMic == \E idx \in 0..(NumMics - 1) : switch_mic(idx)

\* the start_recording call that follows stop_recording in the microphone
\* checkbox handler and in switch_mic
Restart ==
  /\ pc = "restart"
  /\ \E fail \in StartFailures : DoStart(fail)
  /\ pc' = "idle"
  /\ UNCHANGED <<captureVars, micVars, envVars, exit_log, lockVars, response,
                 show_pip, pip_texture, pip_size, pip_frame_data, pip_dimensions, pip_sample>>


\* ---------------------------------------------------------- switch_source
\* switch_source without the set_state(Null) on the current pipeline
switch_source_nostop(idx) ==
  /\ pc = "idle"
  /\ idx < Len(video_devices)
  /\ Some(idx) # current_device_idx
  /\ device_idx' = idx
  /\ pc' = "switch_setup"
  /\ UNCHANGED <<ret, texture, frame_data, dimensions, rx, sample, current_device_idx,
                 video_devices, setup, recordVars, micVars, pipVars, envVars, exit_log, lockVars, response, enc, pipeline>>

\* switch_source(idx), first statement: stop the current pipeline.  The UI
\* offers the entries of video_devices other than the current one.
switch_source(idx) ==
  /\ pc = "idle"
  /\ idx < Len(video_devices)
  /\ Some(idx) # current_device_idx
  /\ sample = None
  /\ pipeline' = [pipeline EXCEPT !.state = "Null"]
  /\ device_idx' = idx
  /\ pc' = "switch_setup"
  /\ UNCHANGED <<ret, texture, frame_data, dimensions, rx, sample, current_device_idx,
                 video_devices, setup, recordVars, micVars, pipVars, envVars, exit_log, lockVars, response, enc>>

SwitchSource == \E idx \in 0..MaxDisplays : switch_source(idx)

\* switch_source: the call of setup_gstreamer up to set_state(Playing); on
\* an error switch_source logs it and returns
SwitchSourceSetup ==
  /\ pc = "switch_setup"
  /\ \E o \in SetupOutcomes(device_idx, nDisplays) :
       IF o = "ok"
         THEN /\ setup' = Some(setup_gstreamer(device_idx, nDisplays))
              /\ pc' = "setup_wait"
              /\ UNCHANGED ret
         ELSE /\ pc' = "idle"
              /\ ret' = "unit"
              /\ UNCHANGED setup
  /\ UNCHANGED <<texture, frame_data, dimensions, rx, sample, pipeline,
                 current_device_idx, video_devices, device_idx,
                 recordVars, micVars, pipVars, envVars, exit_log, lockVars, response, enc>>

\* switch_source: setup_gstreamer returns after the wait and the fallback,
\* and the Ok arm installs the new session
SwitchSourceInstall ==
  /\ pc = "setup_wait"
  /\ LET s == setup_fallback(Unwrap(setup)) IN
       /\ frame_data' = s.frame_data
       /\ dimensions' = s.image_dims
       /\ pipeline' = s.pipeline
       /\ video_devices' = s.devices
       /\ rx' = s.rx
       /\ sample' = s.sample
  /\ leaked' = Drop(leaked, pipeline, "capture")
  /\ current_device_idx' = Some(device_idx)
  /\ enc' = IF IsSome(recording_pipeline) /\ enc.shared
              THEN [enc EXCEPT !.shared = FALSE, !.old = frame_data]
              ELSE enc
  /\ setup' = None
  /\ pc' = "idle"
  /\ ret' = "unit"
  /\ UNCHANGED <<texture, device_idx, is_recording, recording_pipeline, recording_files,
                 opens, micVars, pipVars, envVars, exit_log, lockVars, response>>

\* -------------------------------------------------------------------- PiP
Max(a, b) == IF a >= b THEN a ELSE b

\* the width rounded down to the alignment, and the 16:9 height
PipSnapped_floor(x) ==
  LET width == (x \div PipAlign) * PipAlign
  IN [width |-> width, height |-> (width * 9) \div 16]

\* update_pip_size: the width snapped to the alignment, and the 16:9 height
PipSnapped(x) ==
  LET width == ((x + 8) \div PipAlign) * PipAlign
  IN [width |-> width, height |-> (width * 9) \div 16]

\* the caps update_pip_size computes from pip_size.x
PipCaps(x) ==
  [width |-> Max(PipSnapped(x).width, PipMinWidth),
   height |-> Max(PipSnapped(x).height, PipMinHeight)]

\* widths of the PiP window at the end of a resize gesture
PipRequests == {300, 330}

\* widths of the PiP image: the minimum display width, the resize requests,
\* and every width from one alignment step below the minimum caps width up
PipWidths == {PipDisplayMinWidth} \cup PipRequests \cup (PipMinWidth - PipAlign)..MaxPipWidth

\* setup_pip_webcam with outcome o
setup_pip_webcam(o) ==
  CASE o = "parse_fail" ->
         UNCHANGED <<pip_pipeline, show_pip, leaked, pip_size>>
    [] o = "play_fail" ->
         /\ pip_size' = PipInitWidth
         /\ UNCHANGED <<pip_pipeline, show_pip, leaked>>
    [] OTHER ->
         /\ pip_size' = PipInitWidth
         /\ pip_pipeline' = Some([state |-> "Playing",
                                  caps |-> [width |-> PipInitWidth, height |-> PipInitHeight]])
         /\ leaked' = IF IsSome(pip_pipeline)
                        THEN Drop(leaked, Unwrap(pip_pipeline), "pip_capture")
                        ELSE leaked
         /\ show_pip' = TRUE

\* toggle_pip that hides the PiP window without taking the pipeline
toggle_pip_hide_only ==
  /\ pc = "idle"
  /\ IF show_pip
       THEN /\ show_pip' = FALSE
            /\ UNCHANGED <<pip_pipeline, leaked, pip_size>>
       ELSE \E o \in {"ok", "parse_fail", "play_fail"} : setup_pip_webcam(o)
  /\ ret' = "unit"
  /\ UNCHANGED <<pc, captureVars, micVars, envVars, exit_log, lockVars, response, enc, is_recording, recording_pipeline,
                 recording_files, opens, pip_texture, pip_frame_data, pip_dimensions,
                 pip_sample>>

toggle_pip ==
  /\ pc = "idle"
  /\ IF show_pip
       THEN /\ IsSome(pip_pipeline) => PipCallbackIdle
            /\ pip_pipeline' = None
            /\ show_pip' = FALSE
            /\ UNCHANGED <<leaked, pip_size>>
       ELSE \E o \in {"ok", "parse_fail", "play_fail"} : setup_pip_webcam(o)
  /\ ret' = "unit"
  /\ UNCHANGED <<pc, captureVars, micVars, envVars, exit_log, lockVars, response, enc, is_recording, recording_pipeline,
                 recording_files, opens, pip_texture, pip_frame_data, pip_dimensions,
                 pip_sample>>

\* on_exit with the results of the two set_state(Null) calls.  The lookup of
\* an element "t" in the capture pipeline finds none.  set_state(Null) waits
\* for a running callback; std::process::exit ends every thread.
on_exit_propagating(pip_result, main_result) ==
  /\ pc = "idle"
  /\ sample = None
  /\ PipCallbackIdle
  /\ pip_pipeline' = None
  /\ IF IsSome(pip_pipeline) /\ pip_result = "Err"
       THEN /\ exit_log' = <<[pipeline |-> "pip", result |-> pip_result]>>
            /\ UNCHANGED <<pc, pipeline>>
       ELSE /\ pipeline' = IF main_result = "Ok"
                             THEN [pipeline EXCEPT !.state = "Null"]
                             ELSE pipeline
            /\ exit_log' =
                 (IF IsSome(pip_pipeline)
                    THEN <<[pipeline |-> "pip", result |-> pip_result]>>
                    ELSE <<>>)
                 \o <<[pipeline |-> "main", result |-> main_result]>>
            /\ pc' = "exited"
  /\ ret' = "unit"
  /\ UNCHANGED <<texture, frame_data, dimensions, rx, sample, current_device_idx,
                 video_devices, setup, device_idx, recordVars, micVars, envVars,
                 lockVars, response, enc,
                 show_pip, pip_texture, pip_size, pip_frame_data, pip_dimensions, pip_sample>>

on_exit(pip_result, main_result) ==
  /\ pc = "idle"
  /\ sample = None
  /\ PipCallbackIdle
  /\ pip_pipeline' = None
  /\ pipeline' = IF main_result = "Ok"
                   THEN [pipeline EXCEPT !.state = "Null"]
                   ELSE pipeline
  /\ exit_log' =
       (IF IsSome(pip_pipeline)
          THEN <<[pipeline |-> "pip", result |-> pip_result]>>
          ELSE <<>>)
       \o <<[pipeline |-> "main", result |-> main_result]>>
  /\ pc' = "exited"
  /\ ret' = "unit"
  /\ UNCHANGED <<texture, frame_data, dimensions, rx, sample, current_device_idx,
                 video_devices, setup, device_idx, recordVars, micVars, envVars,
                 lockVars, response, enc,
                 show_pip, pip_texture, pip_size, pip_frame_data, pip_dimensions, pip_sample>>

OnExit == \E pip_result \in {"Ok", "Err"}, main_result \in {"Ok", "Err"} :
            on_exit(pip_result, main_result)

\* update: the PiP window reports drag_stopped, pip_size.x has just been set
\* to the display width x, and update_pip_size reconfigures the caps filter
update_pip_size(x) ==
  /\ pc = "idle"
  /\ show_pip
  /\ IsSome(pip_texture)
  /\ pip_size' = x
  /\ response' = "drag_stopped"
  /\ pip_pipeline' = IF IsSome(pip_pipeline)
                       THEN Some([Unwrap(pip_pipeline) EXCEPT !.caps = PipCaps(x)])
                       ELSE pip_pipeline
  /\ ret' = "unit"
  /\ UNCHANGED <<pc, captureVars, recordVars, micVars, envVars, exit_log, lockVars, enc, show_pip, pip_texture,
                 pip_frame_data, pip_dimensions, pip_sample>>

UpdatePipSize == \E x \in PipRequests : update_pip_size(x)

\* gestures the PiP image can report in a frame
Gestures == {"none", "dragged", "drag_stopped"}

\* a frame of the PiP window that reconfigures the caps on every drag report
PipWindowFrame_every_delta(resp, x) ==
  /\ pc = "idle"
  /\ show_pip
  /\ IsSome(pip_texture)
  /\ pip_size' = x
  /\ response' = resp
  /\ pip_pipeline' = IF IsSome(pip_pipeline) /\ resp # "none"
                       THEN Some([Unwrap(pip_pipeline) EXCEPT !.caps = PipCaps(x)])
                       ELSE pip_pipeline
  /\ UNCHANGED <<pc, ret, captureVars, recordVars, micVars, envVars, exit_log, lockVars,
                 enc, show_pip, pip_texture, pip_frame_data, pip_dimensions, pip_sample>>

\* update, one frame of the PiP window: the display size is stored in
\* pip_size, and update_pip_size runs when the drag has stopped
PipWindowFrame(resp, x) ==
  IF resp = "drag_stopped"
    THEN update_pip_size(x)
    ELSE /\ pc = "idle"
         /\ show_pip
         /\ IsSome(pip_texture)
         /\ pip_size' = x
         /\ response' = resp
         /\ UNCHANGED <<pc, ret, captureVars, recordVars, micVars, envVars, exit_log,
                        lockVars, enc, show_pip, pip_texture, pip_frame_data,
                        pip_dimensions, pip_sample, pip_pipeline>>

PipWindow == \E resp \in Gestures, x \in PipRequests : PipWindowFrame(resp, x)

\* the same for every width of the range
ResizePip == \E x \in PipWidths : update_pip_size(x)

\* ----------------------------------------------------------------- update
\* the texture update without the length test
BuildTexture_unchecked(buffer, dims, old) ==
  IF IsSome(buffer)
    THEN Some([width |-> dims.width, height |-> dims.height, src |-> Unwrap(buffer).src])
    ELSE old

\* the texture update builds from buffer under dims, or keeps old
BuildTexture(buffer, dims, old) ==
  IF IsSome(buffer) /\ Unwrap(buffer).len = dims.width * dims.height * BytesPerPixel
    THEN Some([width |-> dims.width, height |-> dims.height, src |-> Unwrap(buffer).src])
    ELSE old

\* update: process frame data and update the textures
Render ==
  /\ pc = "idle"
  /\ texture' = BuildTexture(frame_data, dimensions, texture)
  /\ pip_texture' = IF show_pip
                      THEN BuildTexture(pip_frame_data, pip_dimensions, pip_texture)
                      ELSE pip_texture
  /\ UNCHANGED <<pc, ret, frame_data, dimensions, rx, sample, pipeline, current_device_idx,
                 video_devices, setup, device_idx, recordVars, micVars, envVars, exit_log, lockVars, response, enc,
                 show_pip, pip_frame_data, pip_dimensions, pip_sample, pip_pipeline,
                 pip_size>>

\* ------------------------------------------------------------ environment
Tick ==
  /\ now < MaxClock
  /\ now' = now + 1
  /\ UNCHANGED <<pc, ret, captureVars, recordVars, micVars, pipVars, nDisplays, exit_log, lockVars, response, enc>>

\* a display is connected or disconnected
DisplayChange ==
  /\ \E n \in 0..MaxDisplays : n # nDisplays /\ nDisplays' = n
  /\ UNCHANGED <<pc, ret, captureVars, recordVars, micVars, pipVars, now, exit_log, lockVars, response, enc>>

\* ------------------------------------------------- the mutexes, step by step
\* The actions below are the callbacks and the UI operations that lock a
\* mutex, one step per lock, write or call.  MutexGuard values are released
\* where their scope ends.

\* main new_sample: pull_sample, and try_recv on the update channel
LkCbPull ==
  /\ pc # "exited"
  /\ th.cb = "idle"
  /\ setup = None
  /\ pipeline.state = "Playing"
  /\ pipeline.seq < MaxFrames
  /\ sample' = Some(SourceCaps(pipeline))
  /\ pipeline' = [pipeline EXCEPT !.seq = @ + 1]
  /\ rx' = FALSE
  /\ th' = [th EXCEPT !.cb = IF rx THEN "want_dims" ELSE "want_frame"]
  /\ UNCHANGED <<pc, ret, texture, frame_data, dimensions, current_device_idx,
                 video_devices, setup, device_idx, recordVars, micVars, pipVars, envVars,
                 exit_log, lock, sr_dims, response, enc>>

\* main new_sample: image_dims_for_callback.lock()
LkCbLockDims ==
  /\ th.cb = "want_dims"
  /\ lock["dims"] = "free"
  /\ lock' = [lock EXCEPT !["dims"] = "cb"]
  /\ th' = [th EXCEPT !.cb = "write_width"]
  /\ UNCHANGED <<pc, ret, captureVars, recordVars, micVars, pipVars, envVars, exit_log,
                 sr_dims, response, enc>>

\* main new_sample: dims.width = ...
LkCbWriteWidth ==
  /\ th.cb = "write_width"
  /\ dimensions' = [dimensions EXCEPT !.width = Unwrap(sample).width]
  /\ th' = [th EXCEPT !.cb = "write_height"]
  /\ UNCHANGED <<pc, ret, texture, frame_data, rx, sample, pipeline, current_device_idx,
                 video_devices, setup, device_idx, recordVars, micVars, pipVars, envVars,
                 exit_log, lock, sr_dims, response, enc>>

\* main new_sample if the dimensions guard were never dropped
LkCbWriteHeight_keep_guard ==
  /\ th.cb = "write_height"
  /\ dimensions' = [dimensions EXCEPT !.height = Unwrap(sample).height]
  /\ th' = [th EXCEPT !.cb = "want_frame"]
  /\ UNCHANGED <<pc, ret, texture, frame_data, rx, sample, pipeline, current_device_idx,
                 video_devices, setup, device_idx, recordVars, micVars, pipVars, envVars,
                 exit_log, sr_dims, response, enc, lock>>

\* main new_sample: dims.height = ..., and the guard goes out of scope
LkCbWriteHeight ==
  /\ th.cb = "write_height"
  /\ dimensions' = [dimensions EXCEPT !.height = Unwrap(sample).height]
  /\ lock' = [lock EXCEPT !["dims"] = "free"]
  /\ th' = [th EXCEPT !.cb = "want_frame"]
  /\ UNCHANGED <<pc, ret, texture, frame_data, rx, sample, pipeline, current_device_idx,
                 video_devices, setup, device_idx, recordVars, micVars, pipVars, envVars,
                 exit_log, sr_dims, response, enc>>

\* main new_sample: frame_data_clone.lock()
LkCbLockFrame ==
  /\ th.cb = "want_frame"
  /\ lock["frame"] = "free"
  /\ lock' = [lock EXCEPT !["frame"] = "cb"]
  /\ th' = [th EXCEPT !.cb = "store"]
  /\ UNCHANGED <<pc, ret, captureVars, recordVars, micVars, pipVars, envVars, exit_log,
                 sr_dims, response, enc>>

\* main new_sample: *data = Some(...), and the callback returns
LkCbStore ==
  /\ th.cb = "store"
  /\ LET s == new_sample_store(Cur) IN
       /\ frame_data' = s.frame_data
       /\ sample' = s.sample
  /\ lock' = [lock EXCEPT !["frame"] = "free"]
  /\ th' = [th EXCEPT !.cb = "idle"]
  /\ UNCHANGED <<pc, ret, texture, dimensions, rx, pipeline, current_device_idx,
                 video_devices, setup, device_idx, recordVars, micVars, pipVars, envVars,
                 exit_log, sr_dims, response, enc>>

\* PiP new_sample: pull_sample
LkPipCbPull ==
  /\ pc # "exited"
  /\ th.pipcb = "idle"
  /\ IsSome(pip_pipeline)
  /\ Unwrap(pip_pipeline).state = "Playing"
  /\ pip_sample' = Some(Unwrap(pip_pipeline).caps)
  /\ th' = [th EXCEPT !.pipcb = "want_dims"]
  /\ UNCHANGED <<pc, ret, captureVars, recordVars, micVars, envVars, exit_log, lock, sr_dims,
                 response, enc, show_pip, pip_texture, pip_frame_data, pip_dimensions,
                 pip_pipeline, pip_size>>

\* PiP new_sample: dimensions.lock()
LkPipCbLockDims ==
  /\ th.pipcb = "want_dims"
  /\ lock["pip_dims"] = "free"
  /\ lock' = [lock EXCEPT !["pip_dims"] = "pipcb"]
  /\ th' = [th EXCEPT !.pipcb = "write_width"]
  /\ UNCHANGED <<pc, ret, captureVars, recordVars, micVars, pipVars, envVars, exit_log,
                 sr_dims, response, enc>>

\* PiP new_sample: dims.width = ...
LkPipCbWriteWidth ==
  /\ th.pipcb = "write_width"
  /\ pip_dimensions' = [pip_dimensions EXCEPT !.width = Unwrap(pip_sample).width]
  /\ th' = [th EXCEPT !.pipcb = "write_height"]
  /\ UNCHANGED <<pc, ret, captureVars, recordVars, micVars, envVars, exit_log, lock, sr_dims,
                 response, enc, show_pip, pip_texture, pip_frame_data, pip_sample,
                 pip_pipeline, pip_size>>

\* PiP new_sample: dims.height = ..., and the guard goes out of scope
LkPipCbWriteHeight ==
  /\ th.pipcb = "write_height"
  /\ pip_dimensions' = [pip_dimensions EXCEPT !.height = Unwrap(pip_sample).height]
  /\ lock' = [lock EXCEPT !["pip_dims"] = "free"]
  /\ th' = [th EXCEPT !.pipcb = "want_frame"]
  /\ UNCHANGED <<pc, ret, captureVars, recordVars, micVars, envVars, exit_log, sr_dims,
                 response, enc, show_pip, pip_texture, pip_frame_data, pip_sample,
                 pip_pipeline, pip_size>>

\* PiP new_sample: frame_data.lock()
LkPipCbLockFrame ==
  /\ th.pipcb = "want_frame"
  /\ lock["pip_frame"] = "free"
  /\ lock' = [lock EXCEPT !["pip_frame"] = "pipcb"]
  /\ th' = [th EXCEPT !.pipcb = "store"]
  /\ UNCHANGED <<pc, ret, captureVars, recordVars, micVars, pipVars, envVars, exit_log,
                 sr_dims, response, enc>>

\* PiP new_sample: *data = Some(...), and the callback returns
LkPipCbStore ==
  /\ th.pipcb = "store"
  /\ pip_frame_data' = Some(Frame(Unwrap(pip_sample), "pip", 0))
  /\ pip_sample' = None
  /\ lock' = [lock EXCEPT !["pip_frame"] = "free"]
  /\ th' = [th EXCEPT !.pipcb = "idle"]
  /\ UNCHANGED <<pc, ret, captureVars, recordVars, micVars, envVars, exit_log, sr_dims,
                 response, enc, show_pip, pip_texture, pip_dimensions, pip_pipeline,
                 pip_size>>

\* the appsrc of the main recording pipeline calls need_data; the closure
\* holds the installed FrameBuffer as long as the source is not switched
LkEncNeedData ==
  /\ pc # "exited"
  /\ th.enc = "idle"
  /\ IsSome(recording_pipeline)
  /\ Unwrap(recording_pipeline).state = "Playing"
  /\ enc.shared
  /\ enc.demands < MaxDemands
  /\ enc' = [enc EXCEPT !.demands = @ + 1]
  /\ th' = [th EXCEPT !.enc = "want_frame"]
  /\ UNCHANGED <<pc, ret, captureVars, recordVars, micVars, pipVars, envVars, exit_log,
                 lock, sr_dims, response>>

\* main need_data: frame_data.lock(); with a frame present the copy is
\* made and push_buffer is called, without one the guard is dropped
LkEncLockFrame ==
  /\ th.enc = "want_frame"
  /\ lock["frame"] = "free"
  /\ IF IsSome(frame_data)
       THEN /\ lock' = [lock EXCEPT !["frame"] = "enc"]
            /\ th' = [th EXCEPT !.enc = "push_buffer"]
       ELSE /\ th' = [th EXCEPT !.enc = "idle"]
            /\ UNCHANGED lock
  /\ UNCHANGED <<pc, ret, captureVars, recordVars, micVars, pipVars, envVars, exit_log,
                 sr_dims, response, enc>>

\* main need_data if push_buffer returned and the guard were kept
LkEncPushReturn_keep_guard ==
  /\ th.enc = "push_buffer"
  /\ enc' = [enc EXCEPT !.pushed = @ \o need_data(frame_data).pushed]
  /\ th' = [th EXCEPT !.enc = "idle"]
  /\ UNCHANGED <<pc, ret, captureVars, recordVars, micVars, pipVars, envVars, exit_log,
                 sr_dims, response, lock>>

\* main need_data: push_buffer returns (the appsrc does not block), the
\* guard goes out of scope
LkEncPushReturn ==
  /\ th.enc = "push_buffer"
  /\ enc' = [enc EXCEPT !.pushed = @ \o need_data(frame_data).pushed]
  /\ lock' = [lock EXCEPT !["frame"] = "free"]
  /\ th' = [th EXCEPT !.enc = "idle"]
  /\ UNCHANGED <<pc, ret, captureVars, recordVars, micVars, pipVars, envVars, exit_log,
                 sr_dims, response>>

\* operations of the UI thread that start with a lock request
UiOps == {"render", "render_pip", "get_pixel", "get_dimensions"}

\* the UI thread enters one of them
LkUiBegin ==
  /\ pc = "idle"
  /\ \E op \in UiOps :
       /\ op = "render_pip" => show_pip
       /\ pc' = op
  /\ UNCHANGED <<ret, captureVars, recordVars, micVars, pipVars, envVars, exit_log,
                 lockVars, response, enc>>

\* update: self.frame_data.lock(); without a frame the guard is dropped
LkRenderLockFrame ==
  /\ pc = "render"
  /\ lock["frame"] = "free"
  /\ IF IsSome(frame_data)
       THEN /\ lock' = [lock EXCEPT !["frame"] = "ui"]
            /\ pc' = "render_dims"
       ELSE /\ pc' = "idle"
            /\ UNCHANGED lock
  /\ UNCHANGED <<ret, captureVars, recordVars, micVars, pipVars, envVars, exit_log,
                 th, sr_dims, response, enc>>

\* update: self.dimensions.lock() with the frame guard held, the texture
\* update, and both guards go out of scope
LkRenderLockDims ==
  /\ pc = "render_dims"
  /\ lock["dims"] = "free"
  /\ texture' = BuildTexture(frame_data, dimensions, texture)
  /\ lock' = [lock EXCEPT !["frame"] = "free"]
  /\ pc' = "idle"
  /\ UNCHANGED <<sr_dims, ret, frame_data, dimensions, rx, sample, pipeline, current_device_idx,
                 video_devices, setup, device_idx, recordVars, micVars, pipVars, envVars,
                 exit_log, th, response, enc>>

\* update: self.pip_frame_data.lock(); without a frame the guard is dropped
LkRenderPipLockFrame ==
  /\ pc = "render_pip"
  /\ lock["pip_frame"] = "free"
  /\ IF IsSome(pip_frame_data)
       THEN /\ lock' = [lock EXCEPT !["pip_frame"] = "ui"]
            /\ pc' = "render_pip_dims"
       ELSE /\ pc' = "idle"
            /\ UNCHANGED lock
  /\ UNCHANGED <<ret, captureVars, recordVars, micVars, pipVars, envVars, exit_log,
                 th, sr_dims, response, enc>>

\* update: self.pip_dimensions.lock() with the frame guard held, the
\* texture update, and both guards go out of scope
LkRenderPipLockDims ==
  /\ pc = "render_pip_dims"
  /\ lock["pip_dims"] = "free"
  /\ pip_texture' = BuildTexture(pip_frame_data, pip_dimensions, pip_texture)
  /\ lock' = [lock EXCEPT !["pip_frame"] = "free"]
  /\ pc' = "idle"
  /\ UNCHANGED <<sr_dims, ret, captureVars, recordVars, micVars, envVars, exit_log, th, response,
                 enc, show_pip, pip_frame_data, pip_dimensions, pip_sample, pip_pipeline,
                 pip_size>>

\* get_pixel: self.dimensions.lock() and the range test; inside tells
\* whether (x, y) passes it
LkGetPixelLockDims ==
  /\ pc = "get_pixel"
  /\ lock["dims"] = "free"
  /\ \E inside \in IF dimensions.width > 0 /\ dimensions.height > 0
                     THEN BOOLEAN ELSE {FALSE} :
       IF inside
         THEN /\ lock' = [lock EXCEPT !["dims"] = "ui"]
              /\ pc' = "get_pixel_frame"
         ELSE /\ pc' = "idle"
              /\ UNCHANGED lock
  /\ UNCHANGED <<sr_dims, ret, captureVars, recordVars, micVars, pipVars, envVars, exit_log,
                 th, response, enc>>

\* get_pixel: self.frame_data.lock() with the dimensions guard held, the
\* read, and both guards go out of scope
LkGetPixelLockFrame ==
  /\ pc = "get_pixel_frame"
  /\ lock["frame"] = "free"
  /\ lock' = [lock EXCEPT !["dims"] = "free"]
  /\ pc' = "idle"
  /\ UNCHANGED <<ret, captureVars, recordVars, micVars, pipVars, envVars, exit_log,
                 th, sr_dims, response, enc>>

\* get_dimensions: lock, read both fields, unlock
LkGetDimensions ==
  /\ pc = "get_dimensions"
  /\ lock["dims"] = "free"
  /\ pc' = "idle"
  /\ UNCHANGED <<sr_dims, ret, captureVars, recordVars, micVars, pipVars, envVars, exit_log,
                 lock, th, response, enc>>

\* start_recording up to the dimensions lock: the main pipeline string is
\* parsed, or the call fails there
LkStartBegin ==
  /\ pc = "idle"
  /\ ~is_recording
  /\ StartAllowed
  /\ \/ /\ DoStart("main_parse")
        /\ UNCHANGED pc
     \/ /\ pc' = "sr_dims"
        /\ UNCHANGED <<ret, recordVars, pip_pipeline, enc>>
  /\ UNCHANGED <<captureVars, micVars, envVars, exit_log, lockVars, response,
                 show_pip, pip_texture, pip_size, pip_frame_data, pip_dimensions, pip_sample>>

\* start_recording: let dims = self.dimensions.lock(), the caps are built
LkStartLockDims ==
  /\ pc = "sr_dims"
  /\ lock["dims"] = "free"
  /\ lock' = [lock EXCEPT !["dims"] = "ui"]
  /\ sr_dims' = Some(dimensions)
  /\ pc' = "sr_configure"
  /\ UNCHANGED <<ret, captureVars, recordVars, micVars, pipVars, envVars, exit_log,
                 th, response, enc>>

\* start_recording: set_caps and set_callbacks have returned and the block
\* that declared dims ends
LkStartConfigured ==
  /\ pc = "sr_configure"
  /\ lock' = [lock EXCEPT !["dims"] = "free"]
  /\ pc' = IF show_pip THEN "sr_pip" ELSE "sr_play"
  /\ UNCHANGED <<ret, captureVars, recordVars, micVars, pipVars, envVars, exit_log,
                 th, sr_dims, response, enc>>

\* the PiP part of start_recording reading pip_dimensions without waiting
\* for its mutex
LkStartPipLockDims_unlocked ==
  /\ pc = "sr_pip"
  /\ \/ /\ DoStart("pip_parse")
        /\ pc' = "idle"
        /\ sr_dims' = None
        /\ UNCHANGED lock
     \/ /\ lock' = [lock EXCEPT !["pip_dims"] = "ui"]
        /\ pc' = "sr_pip_configure"
        /\ UNCHANGED <<ret, recordVars, pip_pipeline, enc, sr_dims>>
  /\ UNCHANGED <<captureVars, micVars, envVars, exit_log, th, response,
                 show_pip, pip_texture, pip_size, pip_frame_data, pip_dimensions, pip_sample>>

\* start_recording with PiP shown: the PiP pipeline string is parsed, or the
\* call fails there; then let dims = self.pip_dimensions.lock()
LkStartPipLockDims ==
  /\ pc = "sr_pip"
  /\ \/ /\ DoStart("pip_parse")
        /\ pc' = "idle"
        /\ sr_dims' = None
        /\ UNCHANGED lock
     \/ /\ lock["pip_dims"] = "free"
        /\ lock' = [lock EXCEPT !["pip_dims"] = "ui"]
        /\ pc' = "sr_pip_configure"
        /\ UNCHANGED <<ret, recordVars, pip_pipeline, enc, sr_dims>>
  /\ UNCHANGED <<captureVars, micVars, envVars, exit_log, th, response,
                 show_pip, pip_texture, pip_size, pip_frame_data, pip_dimensions, pip_sample>>

\* start_recording: the PiP set_caps and set_callbacks have returned and the
\* block that declared dims ends
LkStartPipConfigured ==
  /\ pc = "sr_pip_configure"
  /\ lock' = [lock EXCEPT !["pip_dims"] = "free"]
  /\ pc' = "sr_play"
  /\ UNCHANGED <<ret, captureVars, recordVars, micVars, pipVars, envVars, exit_log,
                 th, sr_dims, response, enc>>

\* start_recording: the set_state(Playing) calls and the field updates
LkStartPlay ==
  /\ pc = "sr_play"
  /\ \E fail \in StartFailures \ {"main_parse", "pip_parse"} : DoStart(fail)
  /\ pc' = "idle"
  /\ sr_dims' = None
  /\ UNCHANGED <<captureVars, micVars, envVars, exit_log, lock, th, response,
                 show_pip, pip_texture, pip_size, pip_frame_data, pip_dimensions, pip_sample>>

\* the capture callbacks, the encoder callback and the UI operations with
\* their locks, on a fixed main source
NextLocks ==
  \/ LkCbPull
  \/ LkCbLockDims
  \/ LkCbWriteWidth
  \/ LkCbWriteHeight
  \/ LkCbLockFrame
  \/ LkCbStore
  \/ LkPipCbPull
  \/ LkPipCbLockDims
  \/ LkPipCbWriteWidth
  \/ LkPipCbWriteHeight
  \/ LkPipCbLockFrame
  \/ LkPipCbStore
  \/ LkEncNeedData
  \/ LkEncLockFrame
  \/ LkEncPushReturn
  \/ LkUiBegin
  \/ LkRenderLockFrame
  \/ LkRenderLockDims
  \/ LkRenderPipLockFrame
  \/ LkRenderPipLockDims
  \/ LkGetPixelLockDims
  \/ LkGetPixelLockFrame
  \/ LkGetDimensions
  \/ LkStartBegin
  \/ LkStartLockDims
  \/ LkStartConfigured
  \/ LkStartPipLockDims
  \/ LkStartPipConfigured
  \/ LkStartPlay
  \/ toggle_pip

SpecLocks == Init /\ [][NextLocks]_vars

\* the steps in which a thread that has begun an operation goes on with it
CbStep ==
  LkCbLockDims \/ LkCbWriteWidth \/ LkCbWriteHeight \/ LkCbLockFrame \/ LkCbStore

PipCbStep ==
  \/ LkPipCbLockDims \/ LkPipCbWriteWidth \/ LkPipCbWriteHeight
  \/ LkPipCbLockFrame \/ LkPipCbStore

EncStep == LkEncLockFrame \/ LkEncPushReturn

UiStep ==
  \/ LkRenderLockFrame \/ LkRenderLockDims
  \/ LkRenderPipLockFrame \/ LkRenderPipLockDims
  \/ LkGetPixelLockDims \/ LkGetPixelLockFrame
  \/ LkGetDimensions
  \/ LkStartLockDims \/ LkStartConfigured
  \/ LkStartPipLockDims \/ LkStartPipConfigured
  \/ LkStartPlay

\* fair scheduling: each thread is at one position at a time, and a thread
\* whose next step is possible again and again takes it (a mutex that is
\* free again and again is acquired by the thread that waits for it)
LocksFairness ==
  /\ SF_vars(CbStep)
  /\ SF_vars(PipCbStep)
  /\ SF_vars(EncStep)
  /\ SF_vars(UiStep)

\* the application as new has built it on a machine that reports no display,
\* before the first sample of the capture pipeline has arrived
InitLocks ==
  /\ Init
  /\ nDisplays = 0
  /\ pipeline.state = "Playing"
  /\ pipeline.seq = 0
  /\ sample = None

SpecLocksFair == InitLocks /\ [][NextLocks]_vars /\ LocksFairness

\* the main capture callback, the encoder callback of a recording without
\* PiP, and the UI operations on the main FrameBuffer
NextDelivery ==
  \/ LkCbPull
  \/ LkCbLockDims
  \/ LkCbWriteWidth
  \/ LkCbWriteHeight
  \/ LkCbLockFrame
  \/ LkCbStore
  \/ LkEncNeedData
  \/ LkEncLockFrame
  \/ LkEncPushReturn
  \/ LkUiBegin
  \/ LkRenderLockFrame
  \/ LkRenderLockDims
  \/ LkGetPixelLockDims
  \/ LkGetPixelLockFrame
  \/ LkGetDimensions
  \/ LkStartBegin
  \/ LkStartLockDims
  \/ LkStartConfigured
  \/ LkStartPlay

SpecDelivery == Init /\ [][NextDelivery]_vars

SpecDeliveryFair ==
  SpecDelivery /\ SF_vars(CbStep) /\ SF_vars(EncStep) /\ SF_vars(UiStep)

\* ------------------------------------------------------------------- Next
Next ==
  \/ MainNewSamplePull
  \/ MainNewSampleStore
  \/ PipNewSamplePull
  \/ PipNewSampleStore
  \/ RecordButton
  \/ CmdR
  \/ MicCheckbox
  \/ SwitchMic
  \/ Restart
  \/ SwitchSource
  \/ SwitchSourceSetup
  \/ SwitchSourceInstall
  \/ toggle_pip
  \/ UpdatePipSize
  \/ Render
  \/ OnExit
  \/ Tick
  \/ DisplayChange

Spec == Init /\ [][Next]_vars

\* the main capture session alone: source switching and its callbacks
NextCapture ==
  \/ MainNewSamplePull
  \/ MainNewSampleStore
  \/ SwitchSource
  \/ SwitchSourceSetup
  \/ SwitchSourceInstall
  \/ Render
  \/ DisplayChange

SpecCapture == Init /\ [][NextCapture]_vars

\* the main capture session with first samples of incomplete metadata
NextDims ==
  \/ NextCapture
  \/ MainNewSamplePullAbsent

SpecDims == Init /\ [][NextDims]_vars

\* main new_sample callback, first part, on the samples after the
\* MaxFrames-th: they are delivered on and on, and numbered like the last
MainNewSampleMore ==
  /\ pc # "exited"
  /\ setup = None
  /\ pipeline.state = "Playing"
  /\ sample = None
  /\ pipeline.seq = MaxFrames
  /\ ~rx
  /\ sample' = Some(SourceCaps(pipeline))
  /\ UNCHANGED <<pc, ret, texture, frame_data, dimensions, rx, pipeline, current_device_idx,
                 video_devices, setup, device_idx, recordVars, micVars, pipVars, envVars,
                 exit_log, lockVars, response, enc>>

\* the main capture session whose samples never stop, and the render loop
NextPreview ==
  \/ NextDims
  \/ MainNewSampleMore

\* fair scheduling: the streaming thread delivers the samples and runs the
\* callback to its end, a switch_source that has begun returns, and every
\* frame of the UI starts with the texture update
SpecPreviewFair ==
  /\ Init
  /\ [][NextPreview]_vars
  /\ WF_vars(MainNewSamplePull \/ MainNewSamplePullAbsent \/ MainNewSampleMore)
  /\ WF_vars(MainNewSampleStore)
  /\ WF_vars(SwitchSourceSetup \/ SwitchSourceInstall)
  /\ SF_vars(Render)

\* both capture sessions and the render loop, without recording
NextFrames ==
  \/ NextCapture
  \/ PipNewSamplePull
  \/ PipNewSampleStore
  \/ toggle_pip
  \/ UpdatePipSize

SpecFrames == Init /\ [][NextFrames]_vars

\* the PiP session alone: toggling, its callbacks, rendering and resizing
NextPipSize ==
  \/ toggle_pip
  \/ PipNewSamplePull
  \/ PipNewSampleStore
  \/ Render
  \/ ResizePip

SpecPipSize == Init /\ [][NextPipSize]_vars

\* the PiP session and the frames of its window
NextPipWindow ==
  \/ toggle_pip
  \/ PipNewSamplePull
  \/ PipNewSampleStore
  \/ Render
  \/ PipWindow

SpecPipWindow == Init /\ [][NextPipWindow]_vars

\* both capture sessions up to the exit of the application
NextExit ==
  \/ NextFrames
  \/ OnExit

SpecExit == Init /\ [][NextExit]_vars

\* recording with its encoder demands, on both capture sessions
NextEnc ==
  \/ MainNewSamplePull
  \/ MainNewSampleStore
  \/ PipNewSamplePull
  \/ PipNewSampleStore
  \/ toggle_pip
  \/ RecordButton
  \/ NeedDataMain
  \/ NeedDataPip

SpecEnc == Init /\ [][NextEnc]_vars

\* recording with its encoder demands while the main source is switched
NextEncSwitch ==
  \/ NextCapture
  \/ RecordButton
  \/ NeedDataMain

SpecEncSwitch == Init /\ [][NextEncSwitch]_vars

\* the recording operations and PiP, with a fixed main capture session
NextRec ==
  \/ RecordButton
  \/ CmdR
  \/ MicCheckbox
  \/ SwitchMic
  \/ Restart
  \/ toggle_pip
  \/ Tick

SpecRec == Init /\ [][NextRec]_vars

\* the recording operations and PiP, and the exit of the application
NextRecExit ==
  \/ NextRec
  \/ OnExit

SpecRecExit == Init /\ [][NextRecExit]_vars


\* ================================================================ claims

\* number of Playing pipelines of a kind: the retained one and the dropped ones
PlayingCount(kind) ==
  CopiesIn(kind, leaked)
  + (IF kind = "rec_main" /\ IsSome(recording_pipeline)
        /\ Unwrap(recording_pipeline).state = "Playing" THEN 1 ELSE 0)
  + (IF kind = "capture" /\ pipeline.state = "Playing" THEN 1 ELSE 0)
  + (IF kind = "capture" /\ IsSome(setup)
        /\ Unwrap(setup).pipeline.state = "Playing" THEN 1 ELSE 0)

BufferSized(data, dims) ==
  IsSome(data) => Unwrap(data).len = dims.width * dims.height * BytesPerPixel

\* C1: in every reachable state each FrameBuffer (main, PiP, and the one of
\* a session being set up) has its pixel data absent or of length
\* width*height*4.
C1_FrameBufferSized ==
  /\ BufferSized(frame_data, dimensions)
  /\ BufferSized(pip_frame_data, pip_dimensions)
  /\ IsSome(setup) => BufferSized(Unwrap(setup).frame_data, Unwrap(setup).image_dims)

\* C2: switch_source is all-or-nothing: when setup_gstreamer fails it leaves
\* no frame and no Playing session in the main slot; when it succeeds the
\* pipeline, a fresh FrameBuffer, the new dimensions and current_device_idx
\* are those of the new session.
C2_SwitchSourceAtomic ==
  [][ /\ (pc = "switch_setup" /\ pc' = "idle") =>
           /\ frame_data' = None
           /\ pipeline'.state # "Playing"
      /\ (pc = "setup_wait" /\ pc' = "idle") =>
           /\ pipeline'.state = "Playing" /\ pipeline'.dev = device_idx
           /\ current_device_idx' = Some(device_idx)
           /\ IsSome(frame_data') => Unwrap(frame_data').src = device_idx
           /\ dimensions'.width # 0 /\ dimensions'.height # 0
    ]_vars

C4_StopRecordingIdempotent ==
  LET s1 == stop_recording(App)
      s2 == stop_recording([recording_files |-> s1.recording_files,
                            recording_pipeline |-> s1.recording_pipeline,
                            pip_pipeline |-> s1.pip_pipeline,
                            is_recording |-> s1.is_recording])
  IN /\ s2.recording_files = s1.recording_files
     /\ s2.recording_pipeline = s1.recording_pipeline
     /\ s2.pip_pipeline = s1.pip_pipeline
     /\ s2.is_recording = s1.is_recording
     /\ s2.nulled = 0

\* a recording with PiP is active: the first stop_recording stops two pipelines
C4_Witness ==
  /\ is_recording
  /\ IsSome(recording_files)
  /\ stop_recording(App).nulled = 2

\* C5: at most one main recording pipeline and at most one PiP recording
\* pipeline is Playing in every reachable state.
C5_OneRecordingPerStream ==
  /\ PlayingCount("rec_main") <= 1
  /\ PlayingCount("rec_pip") <= 1

\* C6: no PiP recording pipeline is Playing once the main recording
\* pipeline has been stopped: stop_recording brings both to Null.
C6_PipRecordingStoppedWithMain ==
  recording_pipeline = None => PlayingCount("rec_pip") = 0

\* C7: the main recording pipeline has an audio branch exactly when
\* is_mic_enabled was on at the start_recording call that built it.
C7_AudioBranchFollowsToggle ==
  IsSome(recording_pipeline) =>
    (Unwrap(recording_pipeline).audio <=> Unwrap(recording_pipeline).mic)

\* C8: between the stop and the start of a microphone-triggered restart no
\* recording pipeline is Playing and the job state is cleared; a microphone
\* toggle or switch while not recording changes no recording state.
C8_MicRestartStopsFirst ==
  /\ [](pc = "restart" =>
          /\ recording_pipeline = None
          /\ recording_files = None
          /\ PlayingCount("rec_main") = 0
          /\ PlayingCount("rec_pip") = 0)
  /\ [][ (~is_recording /\ (is_mic_enabled' # is_mic_enabled
                            \/ current_mic_idx' # current_mic_idx))
           => UNCHANGED recordVars ]_vars

\* C9: no output file is opened by more than one recording pipeline.
C9_FreshFilename ==
  \A f \in BagToSet(opens) : CopiesIn(f, opens) <= 1

\* C10: video_devices holds at least one VideoInput descriptor in every
\* reachable state.
C10_VideoInputOffered ==
  \E i \in 1..Len(video_devices) : video_devices[i].kind = "VideoInput"

\* C11: setup_gstreamer for a device index that is out of range of the
\* current device list does not fail: it yields a session whose dimensions
\* are the fallback 1920x1080.
C11_OutOfRangeFallsBack ==
  [][ (pc = "switch_setup" /\ device_idx >= Len(Devices(nDisplays)) /\ pc' # pc) =>
        /\ pc' = "setup_wait"
        /\ setup_fallback(Unwrap(setup')).image_dims = [width |-> 1920, height |-> 1080]
    ]_vars

C13_CameraSingleOwner ==
  ~ /\ IsSome(pip_pipeline)
    /\ Unwrap(pip_pipeline).state = "Playing"
    /\ \/ pipeline.src = "camera" /\ pipeline.state = "Playing"
       \/ /\ IsSome(setup)
          /\ Unwrap(setup).pipeline.src = "camera"
          /\ Unwrap(setup).pipeline.state = "Playing"

\* C14: a restart of a capture session installs a fresh FrameBuffer: the
\* main slot after switch_source holds no frame or a frame of the new
\* session, and the PiP slot is empty when toggle_pip has started a session.
C14_RestartInstallsFreshBuffer ==
  [][ /\ (pc = "setup_wait" /\ pc' = "idle") =>
           (IsSome(frame_data') => Unwrap(frame_data').src = device_idx)
      /\ (~show_pip /\ show_pip') => pip_frame_data' = None
    ]_vars

\* C15: on_exit calls set_state(Null) on the PiP capture pipeline when there
\* is one and on the main capture pipeline, whatever the first call
\* returned, and then the process exits; a call that returned Ok left its
\* pipeline in Null, and no PiP handle is retained.
C15_ExitStopsCapture ==
  [][ exit_log' # exit_log =>
        /\ pc' = "exited"
        /\ \E i \in DOMAIN exit_log' : exit_log'[i].pipeline = "main"
        /\ IsSome(pip_pipeline) => \E i \in DOMAIN exit_log' : exit_log'[i].pipeline = "pip"
        /\ pip_pipeline' = None
        /\ \A i \in DOMAIN exit_log' :
             (exit_log'[i].pipeline = "main" /\ exit_log'[i].result = "Ok")
               => pipeline'.state = "Null"
    ]_vars

\* the process has exited although both transitions failed
C15_Witness ==
  /\ pc = "exited"
  /\ exit_log = <<[pipeline |-> "pip", result |-> "Err"],
                  [pipeline |-> "main", result |-> "Err"]>>

\* C16: when the initial setup failed the application holds an inert
\* session: the fakesrc pipeline, never started, with no frame and the
\* default dimensions, and the main texture stays absent as long as that
\* session is installed; a switch_source whose setup_gstreamer fails keeps
\* the session it had, stopped, with its dimensions.
C16_InertSession ==
  /\ [](pipeline.src = "fakesrc" =>
          /\ pipeline.state = "Null"
          /\ frame_data = None
          /\ sample = None
          /\ dimensions = [width |-> FallbackWidth, height |-> FallbackHeight]
          /\ texture = None)
  /\ [][ (pc = "switch_setup" /\ pc' = "idle") =>
           /\ pipeline' = pipeline
           /\ pipeline'.state = "Null"
           /\ dimensions' = dimensions
           /\ dimensions'.width # 0 /\ dimensions'.height # 0
       ]_vars

\* the render loop has run on the inert session: the PiP texture exists,
\* the main one does not
C16_Witness ==
  /\ pipeline.src = "fakesrc"
  /\ IsSome(pip_texture)
  /\ texture = None

\* multiples of the alignment around the widths of the range
AlignedWidths == {PipAlign * k : k \in 0..(MaxPipWidth \div PipAlign + 2)}

Dist(a, b) == IF a >= b THEN a - b ELSE b - a

\* the multiples of the alignment nearest to x
NearestAligned(x) ==
  {m \in AlignedWidths : \A n \in AlignedWidths : Dist(m, x) <= Dist(n, x)}

\* C17: for every PiP width of the range, the caps (w, h) that
\* update_pip_size configures have w a multiple of 16, w >= 320, h >= 180
\* and 9*w = 16*h, and w is a multiple of 16 nearest to the width whenever
\* such a multiple is at least 320; a width of 300 is snapped to 304x171 and
\* configured as 320x180.
C17_PipCapsAligned ==
  IsSome(pip_pipeline) =>
    LET w == Unwrap(pip_pipeline).caps.width
        h == Unwrap(pip_pipeline).caps.height
    IN /\ w % 16 = 0
       /\ w >= 320
       /\ h >= 180
       /\ 9 * w = 16 * h
       /\ (\E m \in NearestAligned(pip_size) : m >= 320) => w \in NearestAligned(pip_size)
       /\ pip_size = 300 =>
            /\ PipSnapped(pip_size) = [width |-> 304, height |-> 171]
            /\ w = 320 /\ h = 180

\* the PiP window was resized to a width of 300
C17_Witness ==
  /\ IsSome(pip_pipeline)
  /\ pip_size = 300
  /\ Unwrap(pip_pipeline).caps = [width |-> 320, height |-> 180]

\* C18: toggle_pip called while PiP is shown ends with show_pip false, no
\* PiP pipeline handle and no PiP capture pipeline left running; called
\* while PiP is off it ends either with show_pip true and a Playing PiP
\* capture pipeline, or with PiP off and no pipeline retained.
C18_TogglePip ==
  /\ [](CopiesIn("pip_capture", leaked) = 0)
  /\ [][ toggle_pip =>
           IF show_pip
             THEN /\ ~show_pip'
                  /\ pip_pipeline' = None
                  /\ leaked' = leaked
             ELSE \/ /\ show_pip'
                     /\ IsSome(pip_pipeline')
                     /\ Unwrap(pip_pipeline').state = "Playing"
                  \/ /\ ~show_pip'
                     /\ pip_pipeline' = None
       ]_vars

\* PiP was shown while a recording started and has been toggled off since
C18_Witness ==
  /\ ~show_pip
  /\ pip_pipeline = None
  /\ CopiesIn("rec_pip", leaked) >= 1

\* C19: when start_recording returns an error, is_recording,
\* recording_pipeline and recording_files are unchanged and the call leaves
\* no recording pipeline Playing that was not Playing before.
C19_FailedStartLeavesNothing ==
  [][ (ret' = "Err" /\ <<ret, recordVars>>' # <<ret, recordVars>>) =>
        /\ UNCHANGED <<is_recording, recording_pipeline, recording_files>>
        /\ PlayingCount("rec_main")' = PlayingCount("rec_main")
        /\ PlayingCount("rec_pip")' = PlayingCount("rec_pip")
    ]_vars

\* a session's buffer holds the frame of the latest finished delivery and
\* nothing else; while a delivery is between its two parts it still holds
\* the one before
LatestOnly(s) ==
  LET done == IF s.sample = None THEN s.pipeline.seq ELSE s.pipeline.seq - 1
  IN IF done = 0
       THEN s.frame_data = None
       ELSE s.frame_data = Some(Frame(SourceCaps(s.pipeline), s.pipeline.dev, done))

\* C20: the FrameBuffer of a capture session holds exactly the frame
\* delivered last, whole, and no older one, and get_current_frame returns
\* nothing or one whole frame that the session delivered.
C20_LatestValueCell ==
  /\ LatestOnly(Cur)
  /\ IsSome(setup) => LatestOnly(Unwrap(setup))
  /\ get_current_frame \in
       {None} \cup {Some(Frame(SourceCaps(pipeline), pipeline.dev, k)) : k \in 1..pipeline.seq}

\* a second frame has replaced the first, and a read has returned it
C20_Witness ==
  /\ pipeline.seq = 2
  /\ sample = None
  /\ get_current_frame = Some(Frame(SourceCaps(pipeline), pipeline.dev, 2))
  /\ IsSome(texture)

\* C28: between operations, is_recording holds exactly when
\* recording_pipeline is present, and exactly when recording_files is
\* present.
C28_RecordingFieldsAgree ==
  pc = "idle" =>
    /\ is_recording <=> IsSome(recording_pipeline)
    /\ is_recording <=> IsSome(recording_files)

\* a start_recording has failed after its main pipeline had opened the
\* output file, and no recording is registered
C28_Witness ==
  /\ pc = "idle"
  /\ ret = "Err"
  /\ ~is_recording
  /\ opens # EmptyBag
  /\ recording_pipeline = None
  /\ recording_files = None

\* C29: between operations, show_pip holds exactly when a PiP capture
\* pipeline is held and Playing; starting and stopping a recording leave
\* the PiP capture pipeline handle and show_pip as they were.
C29_ShowPipIffPipeline ==
  /\ [](pc = "idle" =>
          (show_pip <=> (IsSome(pip_pipeline) /\ Unwrap(pip_pipeline).state = "Playing")))
  /\ [][ (is_recording' # is_recording) => UNCHANGED <<pip_pipeline, show_pip>> ]_vars

\* C25: within one main capture session the callback writes the dimensions
\* at most once, on the sample that consumes the pending update request:
\* a sample pulled when the request is gone leaves the dimensions alone, and
\* every sample pulled leaves no request behind.
C25_DimensionsWrittenOnce ==
  [][ /\ (setup = None /\ setup' = None /\ pipeline'.seq # pipeline.seq) =>
           /\ ~rx'
           /\ ~rx => dimensions' = dimensions
      /\ (IsSome(setup) /\ IsSome(setup')
            /\ Unwrap(setup').pipeline.seq # Unwrap(setup).pipeline.seq) =>
           /\ ~Unwrap(setup').rx
           /\ ~Unwrap(setup).rx => Unwrap(setup').image_dims = Unwrap(setup).image_dims
    ]_vars

\* the first sample of a screen session had no structure in its caps, the
\* second was complete, and the dimensions are still those of the first
C25_Witness ==
  /\ pipeline.src = "screen"
  /\ pipeline.seq = 2
  /\ ~rx
  /\ dimensions = [width |-> FallbackWidth, height |-> FallbackHeight]

\* C26: the caps of a PiP pipeline are reconfigured only in a frame whose
\* gesture is drag_stopped: a frame that reports a drag in progress, or no
\* gesture, leaves them alone.
C26_CapsOnlyOnDragStopped ==
  [][ (IsSome(pip_pipeline) /\ IsSome(pip_pipeline')
         /\ Unwrap(pip_pipeline').caps # Unwrap(pip_pipeline).caps)
        => response' = "drag_stopped" ]_vars

\* a frame reported a drag in progress at a new display size and the caps
\* are still the initial ones
C26_Witness ==
  /\ response = "dragged"
  /\ pip_size = 330
  /\ IsSome(pip_pipeline)
  /\ Unwrap(pip_pipeline).caps = [width |-> PipInitWidth, height |-> PipInitHeight]

\* C21: a need_data that finds a frame pushes exactly one buffer equal to
\* the FrameBuffer content and leaves the FrameBuffer as it was, so that two
\* demands without a delivery in between push the same frame twice; a
\* need_data that finds the buffer empty pushes nothing.
C21_NeedDataCopiesLatest ==
  [][ /\ enc'.demands = enc.demands + 1 =>
           /\ UNCHANGED <<frame_data, pip_frame_data>>
           /\ enc'.old = enc.old
           /\ enc'.pushed = IF IsSome(EncBuffer)
                              THEN Append(enc.pushed, Unwrap(EncBuffer))
                              ELSE enc.pushed
      /\ enc'.pip_pushed # enc.pip_pushed =>
           /\ UNCHANGED <<frame_data, pip_frame_data>>
           /\ IsSome(pip_frame_data)
           /\ enc'.pip_pushed = Append(enc.pip_pushed, Unwrap(pip_frame_data))
    ]_vars

\* two demands have pushed the same frame twice and the PiP encoder has
\* pushed a frame too
C21_Witness ==
  /\ enc.demands = 2
  /\ Len(enc.pushed) = 2
  /\ enc.pushed[1] = enc.pushed[2]
  /\ frame_data = Some(enc.pushed[2])
  /\ Len(enc.pip_pushed) >= 1

\* C30: while a main recording is active, every need_data reads the
\* FrameBuffer that is installed in the main capture slot at that moment,
\* also after a switch_source during the recording.
C30_EncoderReadsInstalledBuffer ==
  [][ enc'.demands = enc.demands + 1 =>
        enc'.pushed = enc.pushed \o need_data(frame_data).pushed ]_vars

\* C23: no thread holds a FrameBuffer mutex while it is inside a pipeline
\* call: the encoder thread holds none while push_buffer runs, and the UI
\* thread holds none while start_recording's set_caps and set_callbacks run.
C23_NoLockAcrossPipelineCalls ==
  /\ th.enc = "push_buffer" => \A m \in Mutexes : lock[m] # "enc"
  /\ pc \in {"sr_configure", "sr_pip_configure"} => \A m \in Mutexes : lock[m] # "ui"

\* the (width, height) pairs an update of the main dimensions writes: the
\* initial value, the fallback, the caps of a source
WholeDims ==
  {[width |-> 0, height |-> 0],
   [width |-> FallbackWidth, height |-> FallbackHeight],
   [width |-> CameraWidth, height |-> CameraHeight]}
  \cup {[width |-> DisplayWidth(i), height |-> DisplayHeight(i)] : i \in 0..MaxDisplays}

\* the pairs an update of the PiP dimensions writes
WholePipDims ==
  {[width |-> 0, height |-> 0]} \cup {PipCaps(x) : x \in PipWidths}

C22_DeliveryCompletes ==
  \A n \in 1..MaxFrames :
    (th.cb # "idle" /\ pipeline.seq = n)
      ~> (th.cb = "idle" /\ IsSome(frame_data) /\ Unwrap(frame_data).n = n)

\* a delivery waits for the frame lock while the encoder of a running
\* recording holds it inside push_buffer
C22_Witness ==
  /\ is_recording
  /\ th.enc = "push_buffer"
  /\ lock["frame"] = "enc"
  /\ th.cb = "want_frame"

\* the positions at which a thread has asked for a mutex and not got it yet
CbWaits == th.cb \in {"want_dims", "want_frame"}
PipCbWaits == th.pipcb \in {"want_dims", "want_frame"}
EncWaits == th.enc = "want_frame"
UiWaits ==
  pc \in {"render", "render_dims", "render_pip", "render_pip_dims", "get_pixel",
          "get_pixel_frame", "get_dimensions", "sr_dims", "sr_pip"}

\* C27: no thread waits for a frame-data or dimensions mutex forever: the
\* capture callbacks, the encoder callback and the UI thread (render loop,
\* get_pixel, get_dimensions, start_recording) each leave every position at
\* which they wait for a lock.
C27_EveryLockRequestGranted ==
  /\ []<>~CbWaits
  /\ []<>~PipCbWaits
  /\ []<>~EncWaits
  /\ []<>~UiWaits

\* get_pixel holds the dimensions mutex and asks for the frame-data mutex,
\* which the encoder callback holds while the capture callback asks for it too
C27_Witness ==
  /\ pc = "get_pixel_frame"
  /\ lock["dims"] = "ui"
  /\ lock["frame"] = "enc"
  /\ th.cb = "want_frame"

\* C32: current_device_idx is absent or an index into video_devices, after
\* startup and after every switch_source, so the current source names an
\* existing descriptor.
C32_CurrentDeviceValid ==
  IsSome(current_device_idx) => Unwrap(current_device_idx) < Len(video_devices)

\* C34: a frame of the render loop changes a preview texture (main or PiP)
\* only to one built from the buffer and the dimensions it reads together,
\* and only when the buffer's length is width * height * 4 of those
\* dimensions; otherwise the texture stays as it was.
C34_TextureFromSizedBuffer ==
  [][Render =>
       /\ texture' # texture =>
            /\ BufferSized(frame_data, dimensions)
            /\ IsSome(frame_data)
            /\ Unwrap(texture') = [width |-> dimensions.width,
                                   height |-> dimensions.height,
                                   src |-> Unwrap(frame_data).src]
       /\ pip_texture' # pip_texture =>
            /\ BufferSized(pip_frame_data, pip_dimensions)
            /\ IsSome(pip_frame_data)
            /\ Unwrap(pip_texture') = [width |-> pip_dimensions.width,
                                       height |-> pip_dimensions.height,
                                       src |-> Unwrap(pip_frame_data).src]]_vars

\* the PiP texture built before a resize is still there while the PiP
\* buffer holds a frame whose length does not fit the new dimensions
C34_Witness ==
  /\ show_pip
  /\ IsSome(pip_texture)
  /\ IsSome(pip_frame_data)
  /\ ~BufferSized(pip_frame_data, pip_dimensions)
  /\ Unwrap(pip_texture).width # pip_dimensions.width
  /\ Unwrap(pip_texture).width * Unwrap(pip_texture).height * BytesPerPixel
       = Unwrap(pip_frame_data).len

\* C33: when the application has exited, no recording pipeline is left
\* Playing: on_exit has set the main recording pipeline, and the PiP
\* recording pipeline of a recording with PiP, to Null.
C33_ExitStopsRecording ==
  pc = "exited" =>
    /\ IsSome(recording_pipeline) => Unwrap(recording_pipeline).state = "Null"
    /\ is_recording => CopiesIn("rec_pip", leaked) = 0

\* C31: every buffer the need_data callback of the main recording has
\* pushed is width * height * 4 bytes long for the width and height that
\* start_recording put in the caps of that recording.
C31_PushedFitsCaps ==
  IsSome(recording_pipeline) =>
    \A i \in DOMAIN enc.pushed :
      enc.pushed[i].len = Unwrap(recording_pipeline).caps.width
                          * Unwrap(recording_pipeline).caps.height * BytesPerPixel

\* C35: the preview does not stay behind a delivering session for ever:
\* again and again, it is not the case that the main session is Playing
\* with a frame of its own in the buffer while the texture is missing or
\* built from a frame of another source.
C35_PreviewCatchesUp ==
  []<>~(/\ pc = "idle"
        /\ setup = None
        /\ pipeline.state = "Playing"
        /\ IsSome(frame_data)
        /\ Unwrap(frame_data).src = pipeline.dev
        /\ (IsSome(texture) => Unwrap(texture).src # pipeline.dev))

====
